---- MODULE Spec2Model ----
(***************************************************************************)
(* Flight-route engine of backend/app.py: the process-wide route graph     *)
(* GRAPH (a networkx DiGraph), the in-memory MeTTa space, the edge weight, *)
(* the great-circle heuristic, the two searches of                         *)
(* compute_best_route_on_graph and the request handlers api_route and      *)
(* update_flight_data.                                                     *)
(*                                                                         *)
(* Units.  Python floats are modelled by exact integers:                   *)
(*   duration  tenths of an hour        (7.2 h  -> 72)                     *)
(*   cost      whole dollars            (520.0  -> 520)                    *)
(*   w_duration, w_cost, w_layovers   ten-thousandths (1.0 -> 10000)       *)
(*   weight, score, heuristic   micro-hours (1 h -> 1000000)               *)
(*   distance  centimetres                                                 *)
(* Under the weight vectors given to the heuristic search (components 1.0, *)
(* 0.0 and -1.0) every edge weight is a multiple of 1000 micro-hours and   *)
(* the fractional parts (mod 1000) of the fifteen heuristic values differ  *)
(* pairwise by more than one micro-hour, so the order of the priorities    *)
(* g + h in the model is the order of the floats in the program.           *)
(***************************************************************************)
EXTENDS Integers, Sequences, FiniteSets, TLC

\* -------------------------------------------------------------------------
\* Bounds of the model
\* -------------------------------------------------------------------------
MaxAdds == 1
MaxPops == 24

\* -------------------------------------------------------------------------
\* Data (app.py 34-67)
\* -------------------------------------------------------------------------
None == "None"

FlightEdge(src, dst, airline, duration, cost, layovers) ==
    [src |-> src, dst |-> dst, airline |-> airline,
     duration |-> duration, cost |-> cost, layovers |-> layovers]

SAMPLE_EDGES ==
    << FlightEdge("Toronto",   "NewYork",   "AirCanada", 15, 220, 0),
       FlightEdge("Toronto",   "London",    "AirCanada", 72, 520, 0),
       FlightEdge("NewYork",   "London",    "Delta",     68, 480, 0),
       FlightEdge("NewYork",   "Paris",     "Delta",     71, 510, 0),
       FlightEdge("London",    "Paris",     "BA",        11, 120, 0),
       FlightEdge("London",    "Frankfurt", "Lufthansa", 14, 140, 0),
       FlightEdge("Frankfurt", "Paris",     "Lufthansa", 12, 130, 0),
       FlightEdge("Toronto",   "Frankfurt", "Lufthansa", 75, 540, 0),
       FlightEdge("Paris",     "Rome",      "AirFrance", 20, 160, 0),
       FlightEdge("Frankfurt", "Rome",      "Lufthansa", 20, 150, 0) >>

\* The keys of CITY_COORDS.
CITY_COORDS == {"Toronto", "NewYork", "London", "Paris", "Frankfurt", "Rome"}

SeqToSet(s) == {s[i] : i \in DOMAIN s}

\* -------------------------------------------------------------------------
\* networkx.DiGraph as the program uses it: insertion-ordered node, successor
\* and predecessor dictionaries and one attribute dictionary per edge.
\* -------------------------------------------------------------------------
EmptyGraph == [nodes |-> <<>>, succ |-> <<>>, pred |-> <<>>, attr |-> <<>>]

HasNode(G, n) == n \in SeqToSet(G.nodes)

HasEdge(G, u, v) == <<u, v>> \in DOMAIN G.attr

AddNode(G, n) ==
    IF HasNode(G, n) THEN G
    ELSE [G EXCEPT !.nodes = Append(@, n),
                   !.succ  = (n :> <<>>) @@ @,
                   !.pred  = (n :> <<>>) @@ @]

\* DiGraph.add_edge(u, v, **attrs): the nodes are created when missing, an
\* existing edge keeps its place and has its attributes updated.
nx_add_edge(G, u, v, attrs) ==
    LET G1 == AddNode(AddNode(G, u), v)
    IN  [G1 EXCEPT !.succ[u] = IF v \in SeqToSet(@) THEN @ ELSE Append(@, v),
                   !.pred[v] = IF u \in SeqToSet(@) THEN @ ELSE Append(@, u),
                   !.attr    = (<<u, v>> :> attrs) @@ @]

\* DiGraph.edges: node by node in insertion order, each node's successors in
\* insertion order.
RECURSIVE EdgesOfNodes(_, _)
EdgesOfNodes(G, i) ==
    IF i > Len(G.nodes) THEN <<>>
    ELSE LET u == G.nodes[i]
         IN  [k \in 1..Len(G.succ[u]) |-> <<u, G.succ[u][k]>>]
             \o EdgesOfNodes(G, i + 1)

nx_edges(G) == EdgesOfNodes(G, 1)

EdgeAttrs(e) ==
    [airline |-> e.airline, duration |-> e.duration,
     cost |-> e.cost, layovers |-> e.layovers]

\* First write wins: an existing connection is left as it is.
add_edge_keep_existing(G, edge) ==
    IF HasEdge(G, edge.src, edge.dst) THEN G
    ELSE nx_add_edge(G, edge.src, edge.dst, EdgeAttrs(edge))

add_edge_to_graph(G, edge) == nx_add_edge(G, edge.src, edge.dst, EdgeAttrs(edge))

\* for e in edges: add the edge.  (G1 = G1 is TRUE: it makes TLC evaluate G1
\* before the next round instead of nesting the rounds.)
RECURSIVE AddEdges(_, _, _)
AddEdges(G, edges, i) ==
    IF i > Len(edges) THEN G
    ELSE LET G1 == add_edge_to_graph(G, edges[i])
         IN  IF G1 = G1 THEN AddEdges(G1, edges, i + 1) ELSE G1

load_sample_edges(G) == AddEdges(G, SAMPLE_EDGES, 1)

graph_from_edges(edges) == AddEdges(EmptyGraph, edges, 1)

\* -------------------------------------------------------------------------
\* Weights and heuristic (app.py 242-270)
\* -------------------------------------------------------------------------
\* One unit of a weight parameter is 1/WeightUnit.
WeightUnit == 10000

\* Micro-hours per unit of weight: of the 1.5 h penalty, of a tenth of an
\* hour of duration, of a dollar of cost (cost / 100.0).
LAYOVER_PENALTY_PER_HOP_HOURS == 150
CRUISE_SPEED_KMPH == 800
DurationMicro == 10
CostMicro == 1

edge_weight(attrs, w_duration, w_cost, w_layovers) ==
      w_duration * (attrs.duration * DurationMicro)
    + w_cost     * (attrs.cost * CostMicro)
    + w_layovers * LAYOVER_PENALTY_PER_HOP_HOURS

\* haversine_km over CITY_COORDS, in centimetres (the trigonometry is
\* evaluated once per pair of cities).
HaversineTable ==
    <<"Toronto", "NewYork">>   :> 54791922  @@
    <<"Toronto", "London">>    :> 571036115 @@
    <<"Toronto", "Paris">>     :> 599856394 @@
    <<"Toronto", "Frankfurt">> :> 633089552 @@
    <<"Toronto", "Rome">>      :> 707877725 @@
    <<"NewYork", "London">>    :> 557023431 @@
    <<"NewYork", "Paris">>     :> 583724974 @@
    <<"NewYork", "Frankfurt">> :> 620268574 @@
    <<"NewYork", "Rome">>      :> 688994311 @@
    <<"London", "Paris">>      :> 34354993  @@
    <<"London", "Frankfurt">>  :> 63776493  @@
    <<"London", "Rome">>       :> 143377731 @@
    <<"Paris", "Frankfurt">>   :> 47789285  @@
    <<"Paris", "Rome">>        :> 110528099 @@
    <<"Frankfurt", "Rome">>    :> 95873216

haversine_km(a, b) ==
    IF a = b THEN 0
    ELSE IF <<a, b>> \in DOMAIN HaversineTable THEN HaversineTable[<<a, b>>]
    ELSE HaversineTable[<<b, a>>]

\* hours = km / CRUISE_SPEED_KMPH: centimetres / 80 are micro-hours.  The
\* product w_duration * hours / WeightUnit is taken in parts (w_duration =
\* q * WeightUnit + r, hours = a * WeightUnit + b) that stay within 32 bits.
heuristic_duration_only(node, goal, w_duration) ==
    IF ~(node \in CITY_COORDS /\ goal \in CITY_COORDS) THEN 0
    ELSE LET hours == haversine_km(node, goal) \div (CRUISE_SPEED_KMPH \div 10)
             q == w_duration \div WeightUnit
             r == w_duration % WeightUnit
             a == hours \div WeightUnit
             b == hours % WeightUnit
         IN  q * hours + r * a + (r * b) \div WeightUnit

\* -------------------------------------------------------------------------
\* heapq over tuples that start (priority, counter, ...): the least priority
\* first, the counter (insertion order) breaking ties.
\* -------------------------------------------------------------------------
HeapMin(q) ==
    CHOOSE e \in q : \A o \in q : e.f < o.f \/ (e.f = o.f /\ e.c <= o.c)

Reverse(s) == [i \in 1..Len(s) |-> s[Len(s) + 1 - i]]

\* -------------------------------------------------------------------------
\* networkx.astar_path(H, source, target, heuristic, weight="weight")
\* -------------------------------------------------------------------------
\* path.append(node); node = explored[node] until node is None.
RECURSIVE AStarParents(_, _, _)
AStarParents(explored, node, fuel) ==
    IF node = None THEN <<>>
    ELSE IF fuel = 0 THEN <<None>>
    ELSE <<node>> \o AStarParents(explored, explored[node], fuel - 1)

\* The for loop over the successors of curnode.
RECURSIVE astar_neighbors(_, _, _, _, _, _, _)
astar_neighbors(H, target, w_duration, st, curnode, dist, i) ==
    IF i > Len(H.succ[curnode]) THEN st
    ELSE LET neighbor == H.succ[curnode][i]
             ncost    == dist + H.attr[<<curnode, neighbor>>].weight
             known    == neighbor \in DOMAIN st.enqueued
             h        == IF known THEN st.enqueued[neighbor][2]
                         ELSE heuristic_duration_only(neighbor, target, w_duration)
             st1      == IF known /\ st.enqueued[neighbor][1] <= ncost THEN st
                         ELSE [st EXCEPT
                                 !.enqueued = (neighbor :> <<ncost, h>>) @@ @,
                                 !.queue = @ \cup {[f |-> ncost + h, c |-> st.c,
                                                    node |-> neighbor, dist |-> ncost,
                                                    parent |-> curnode]},
                                 !.c = @ + 1]
         IN  astar_neighbors(H, target, w_duration, st1, curnode, dist, i + 1)

\* The while loop over the queue.  fuel counts the pops: a run that uses up
\* MaxPops pops is one that never ends (a cycle of negative weight).
RECURSIVE astar_loop(_, _, _, _, _)
astar_loop(H, target, w_duration, st, fuel) ==
    IF st.queue = {} THEN [kind |-> "NetworkXNoPath"]
    ELSE IF fuel = 0 THEN [kind |-> "diverges"]
    ELSE LET e   == HeapMin(st.queue)
             st0 == [st EXCEPT !.queue = @ \ {e}]
         IN  IF e.node = target
             THEN LET back == <<e.node>> \o AStarParents(st.explored, e.parent, MaxPops)
                  IN  IF None \in SeqToSet(back) THEN [kind |-> "diverges"]
                      ELSE [kind |-> "path", path |-> Reverse(back)]
             ELSE IF e.node \in DOMAIN st.explored
                     /\ (st.explored[e.node] = None
                         \/ st.enqueued[e.node][1] < e.dist)
             THEN astar_loop(H, target, w_duration, st0, fuel - 1)
             ELSE astar_loop(H, target, w_duration,
                      astar_neighbors(H, target, w_duration,
                          [st0 EXCEPT !.explored = (e.node :> e.parent) @@ @],
                          e.node, e.dist, 1),
                      fuel - 1)

astar_path(H, source, target, w_duration) ==
    IF ~HasNode(H, source) \/ ~HasNode(H, target) THEN [kind |-> "NodeNotFound"]
    ELSE astar_loop(H, target, w_duration,
             [queue    |-> {[f |-> 0, c |-> 0, node |-> source, dist |-> 0,
                             parent |-> None]},
              c        |-> 1,
              enqueued |-> <<>>,
              explored |-> <<>>],
             MaxPops)

\* -------------------------------------------------------------------------
\* networkx.shortest_path(H, source, target, weight="weight",
\* method="dijkstra"), which is bidirectional_dijkstra.  dir is 0 forward and
\* 1 backward; the two-element lists are indexed dir + 1.
\* -------------------------------------------------------------------------
\* The for loop over the neighbours of v in direction st.dir.
RECURSIVE bidi_neighbors(_, _, _, _, _)
bidi_neighbors(H, st, v, nbrs, i) ==
    IF i > Len(nbrs) \/ st.raised THEN st
    ELSE LET w        == nbrs[i]
             d        == st.dir + 1
             cost     == IF st.dir = 0 THEN H.attr[<<v, w>>].weight
                         ELSE H.attr[<<w, v>>].weight
             vwLength == st.dists[d][v] + cost
         IN  IF w \in DOMAIN st.dists[d]
             THEN IF vwLength < st.dists[d][w]
                  THEN [st EXCEPT !.raised = TRUE]
                  ELSE bidi_neighbors(H, st, v, nbrs, i + 1)
             ELSE IF w \notin DOMAIN st.seen[d] \/ vwLength < st.seen[d][w]
             THEN LET st1 == [st EXCEPT
                                !.seen[d]   = (w :> vwLength) @@ @,
                                !.fringe[d] = @ \cup {[f |-> vwLength, c |-> st.c,
                                                       node |-> w]},
                                !.c         = @ + 1,
                                !.paths[d]  = (w :> Append(st.paths[d][v], w)) @@ @]
                      both      == w \in DOMAIN st1.seen[1] /\ w \in DOMAIN st1.seen[2]
                      totaldist == st1.seen[1][w] + st1.seen[2][w]
                      st2 == IF both /\ (st1.finalpath = <<>> \/ st1.finaldist > totaldist)
                             THEN [st1 EXCEPT
                                     !.finaldist = totaldist,
                                     !.finalpath = st1.paths[1][w]
                                                   \o Tail(Reverse(st1.paths[2][w]))]
                             ELSE st1
                  IN  bidi_neighbors(H, st2, v, nbrs, i + 1)
             ELSE bidi_neighbors(H, st, v, nbrs, i + 1)

\* The while loop over the two fringes.
RECURSIVE bidi_loop(_, _)
bidi_loop(H, st) ==
    IF st.fringe[1] = {} \/ st.fringe[2] = {} THEN [kind |-> "NetworkXNoPath"]
    ELSE LET dir == 1 - st.dir
             d   == dir + 1
             e   == HeapMin(st.fringe[d])
             v   == e.node
             st0 == [st EXCEPT !.dir = dir, !.fringe[d] = @ \ {e}]
         IN  IF v \in DOMAIN st0.dists[d] THEN bidi_loop(H, st0)
             ELSE LET st1 == [st0 EXCEPT !.dists[d] = (v :> e.f) @@ @]
                  IN  IF v \in DOMAIN st1.dists[(1 - dir) + 1]
                      THEN [kind |-> "path", path |-> st1.finalpath]
                      ELSE LET st2 == bidi_neighbors(H, st1, v,
                                          IF dir = 0 THEN H.succ[v] ELSE H.pred[v], 1)
                           IN  IF st2.raised THEN [kind |-> "ValueError"]
                               ELSE bidi_loop(H, st2)

bidirectional_dijkstra(H, source, target) ==
    IF ~HasNode(H, source) \/ ~HasNode(H, target) THEN [kind |-> "NodeNotFound"]
    ELSE IF source = target THEN [kind |-> "path", path |-> <<source>>]
    ELSE bidi_loop(H,
             [dists     |-> << <<>>, <<>> >>,
              paths     |-> << (source :> <<source>>), (target :> <<target>>) >>,
              fringe    |-> << {[f |-> 0, c |-> 0, node |-> source]},
                               {[f |-> 0, c |-> 1, node |-> target]} >>,
              seen      |-> << (source :> 0), (target :> 0) >>,
              c         |-> 2,
              finaldist |-> 0,
              finalpath |-> <<>>,
              dir       |-> 1,
              raised    |-> FALSE])

\* -------------------------------------------------------------------------
\* Routing (app.py 275-334)
\* -------------------------------------------------------------------------
\* The weighted projection H: every edge of G copied with its weight.
\* (H1 = H1 is TRUE, as in AddEdges.)
RECURSIVE ProjectEdges(_, _, _, _, _, _, _)
ProjectEdges(G, H, es, i, w_duration, w_cost, w_layovers) ==
    IF i > Len(es) THEN H
    ELSE LET u     == es[i][1]
             v     == es[i][2]
             attrs == G.attr[<<u, v>>]
             w     == edge_weight(attrs, w_duration, w_cost, w_layovers)
             new_attrs == [airline |-> attrs.airline, duration |-> attrs.duration,
                           cost |-> attrs.cost, layovers |-> attrs.layovers,
                           weight |-> w]
             H1    == nx_add_edge(H, u, v, new_attrs)
         IN  IF H1 = H1
             THEN ProjectEdges(G, H1, es, i + 1, w_duration, w_cost, w_layovers)
             ELSE H1

\* A projection that leaves the cost out of the weight.
WeightedProjectionNoCost(G, w_duration, w_cost, w_layovers) ==
    ProjectEdges(G, EmptyGraph, nx_edges(G), 1, w_duration, 0, w_layovers)

WeightedProjection(G, w_duration, w_cost, w_layovers) ==
    ProjectEdges(G, EmptyGraph, nx_edges(G), 1, w_duration, w_cost, w_layovers)

RECURSIVE SumOver(_, _, _)
SumOver(H, path, key) ==
    IF Len(path) < 2 THEN 0
    ELSE H.attr[<<path[1], path[2]>>][key] + SumOver(H, Tail(path), key)

Max(a, b) == IF a >= b THEN a ELSE b

\* round(x, 3) of a number of hours: the nearest multiple of 1000
\* micro-hours, a tie going to the even one.
Round3(x) ==
    LET lo == (x \div 1000) * 1000
        r  == x % 1000
    IN  IF r < 500 THEN lo
        ELSE IF r > 500 THEN lo + 1000
        ELSE IF (lo \div 1000) % 2 = 0 THEN lo ELSE lo + 1000

\* The layovers without the clamp at zero.
total_layovers_unclamped(path) == Len(path) - 2

total_layovers(path) == Max(0, Len(path) - 2)

\* The entry appended to edges for the hop u -> v.
EdgeDetailReversed(H, u, v) ==
    LET attrs == H.attr[<<u, v>>]
    IN  [from |-> v, to |-> u,
         airline |-> attrs.airline, duration |-> attrs.duration, cost |-> attrs.cost]

EdgeDetail(H, u, v) ==
    LET attrs == H.attr[<<u, v>>]
    IN  [from |-> u, to |-> v,
         airline |-> attrs.airline, duration |-> attrs.duration, cost |-> attrs.cost]

\* The dictionary returned for a found path.  round(_, 2) of the two
\* totals changes no sum of tenths of an hour or of whole dollars.
CollectDetails(H, path, method) ==
    [kind   |-> "route",
     path   |-> path,
     edges  |-> [i \in 1..(Len(path) - 1) |-> EdgeDetail(H, path[i], path[i + 1])],
     totals |-> [duration_hours |-> SumOver(H, path, "duration"),
                 cost_usd       |-> SumOver(H, path, "cost"),
                 layovers       |-> total_layovers(path),
                 score          |-> Round3(SumOver(H, path, "weight")),
                 method         |-> method]]

\* kind "None" is the None the function returns, "route" the dictionary; any
\* other kind is an exception that leaves the function ("ValueError") or a
\* search that does not end ("diverges").
SearchProjection(H, src, dst, w_duration, method) ==
    LET found == IF method = "a_star"
                 THEN astar_path(H, src, dst, w_duration)
                 ELSE bidirectional_dijkstra(H, src, dst)
    IN  IF found.kind \in {"NetworkXNoPath", "NodeNotFound"} THEN [kind |-> "None"]
        ELSE IF found.kind = "path" THEN CollectDetails(H, found.path, method)
        ELSE found

compute_best_route_on_graph(G, src, dst, w_duration, w_cost, w_layovers, method) ==
    IF ~HasNode(G, src) \/ ~HasNode(G, dst) THEN [kind |-> "None"]
    ELSE SearchProjection(WeightedProjection(G, w_duration, w_cost, w_layovers),
                          src, dst, w_duration, method)

\* -------------------------------------------------------------------------
\* MeTTa space (app.py 175-237, 403-404).  An atom is the S-expression
\*   (flight-route "start" "end" "airline" (duration d) (cost c) (layovers l))
\* as a tuple; the space is the sequence of atoms in the order they were run.
\* -------------------------------------------------------------------------
FlightRouteAtom(start, end, airline, duration, cost, layovers) ==
    <<"flight-route", start, end, airline,
      <<"duration", duration>>, <<"cost", cost>>, <<"layovers", layovers>>>>

\* The match of _pull_edges_from_metta: one FlightEdge per atom of the shape
\* (flight-route $from $to $airline (duration $dur) (cost $cost) (layovers $lay)).
MatchesFlightRoute(a) ==
    /\ Len(a) = 7
    /\ a[1] = "flight-route"
    /\ Len(a[5]) = 2 /\ a[5][1] = "duration"
    /\ Len(a[6]) = 2 /\ a[6][1] = "cost"
    /\ Len(a[7]) = 2 /\ a[7][1] = "layovers"

_pull_edges_from_metta(space) ==
    LET results == SelectSeq(space, MatchesFlightRoute)
    IN  [i \in 1..Len(results) |->
           FlightEdge(results[i][2], results[i][3], results[i][4],
                      results[i][5][2], results[i][6][2], results[i][7][2])]

edges_from_metta_now(have, space) ==
    IF ~have THEN <<>> ELSE _pull_edges_from_metta(space)

EdgeAtom(e) == FlightRouteAtom(e.src, e.dst, e.airline, e.duration, e.cost, e.layovers)

\* The contents metta/flight_routes.metta may have at boot: no file, or the
\* sample routes and two routes of its own.
MettaFiles ==
    { <<>>,
      [i \in 1..Len(SAMPLE_EDGES) |-> EdgeAtom(SAMPLE_EDGES[i])]
          \o <<FlightRouteAtom("Rome", "London", "ITA", 25, 180, 0),
               FlightRouteAtom("London", "Tokyo", "JAL", 118, 900, 1)>> }

\* load_metta_edges: the file's forms are run into the space, the edges
\* pulled from it are added to the graph.
load_metta_edges(G, have, file) ==
    IF ~have THEN G ELSE AddEdges(G, _pull_edges_from_metta(file), 1)

\* boot(): GRAPH.clear(); load_sample_edges(); load_metta_edges(metta_dir)
boot(have, file) == load_metta_edges(load_sample_edges(EmptyGraph), have, file)

\* -------------------------------------------------------------------------
\* State
\* -------------------------------------------------------------------------
VARIABLES
    GRAPH,          \* the process-wide DiGraph
    HAVE_HYPERON,   \* whether hyperon was imported
    METTA,          \* the atoms of METTA_INSTANCE's space
    resp,           \* the response of the request just handled, or Idle
    nAdds,          \* update-flight-data requests handled so far
    reader,         \* a thread in compute_best_route_on_graph: its position and locals
    writer,         \* a thread in add_fact_to_graph_and_metta: its position and locals
    snapshots       \* history: the whole states of GRAPH since the reader started

vars == <<GRAPH, HAVE_HYPERON, METTA, resp, nAdds, reader, writer, snapshots>>

threads == <<reader, writer, snapshots>>

Idle == [op |-> "idle"]

ReaderIdle == [pc |-> "idle"]

WriterIdle == [pc |-> "idle"]

\* -------------------------------------------------------------------------
\* Requests
\* -------------------------------------------------------------------------
Locations == CITY_COORDS \cup {"Tokyo"}

Methods == {"dijkstra", "a_star"}

Sources == {"python", "metta"}

\* <<w_duration, w_cost, w_layovers>>: the default, w_duration=1.0.
DefaultWeights == <<10000, 0, 0>>

WeightVectors ==
    {DefaultWeights, <<0, 10000, 0>>, <<0, 0, 10000>>, <<10000, 10000, 10000>>,
     <<-10000, 0, 0>>}

\* w_duration=0.0008: weights fine enough for the rounding of the score.
FineWeights == <<8, 0, 0>>

\* max_layovers is absent (<<>>) or present (<<n>>).
MaxLayovers == {<<>>, <<0>>}

\* numeric: whether float() accepts the three weight parameters.
RouteRequest(from, to, method, source, w, max_layovers, numeric) ==
    [from |-> from, to |-> to, method |-> method, source |-> source,
     w_duration |-> w[1], w_cost |-> w[2], w_layovers |-> w[3],
     numeric |-> numeric, max_layovers |-> max_layovers]

\* Every pair of locations under both searches and every weight vector.
SearchRequests ==
    {RouteRequest(f, t, m, "python", w, <<>>, TRUE) :
        f \in Locations, t \in Locations, m \in Methods, w \in WeightVectors}

\* Every pair of locations under the uniform-cost search and a small weight.
FineRequests ==
    {RouteRequest(f, t, "dijkstra", "python", FineWeights, <<>>, TRUE) :
        f \in Locations, t \in Locations}

\* The other parameters: the data source and max_layovers.
OptionFroms == {"Toronto", "NewYork"}
OptionTos   == {"London", "Paris", "Tokyo"}

OptionRequests ==
    {RouteRequest(f, t, m, x[1], DefaultWeights, x[2], TRUE) :
        f \in OptionFroms, t \in OptionTos, m \in Methods,
        x \in Sources \X MaxLayovers}

\* A missing parameter, a weight that is no number, other method names.
OddRequests ==
    { RouteRequest("", "London", "dijkstra", "python", DefaultWeights, <<>>, TRUE),
      RouteRequest("Toronto", "London", "dijkstra", "python", DefaultWeights, <<>>, FALSE),
      RouteRequest("Toronto", "London", "bfs", "python", DefaultWeights, <<>>, TRUE),
      RouteRequest("Toronto", "Rome", "astar", "python", DefaultWeights, <<>>, TRUE) }

RouteRequests == SearchRequests \cup FineRequests \cup OptionRequests \cup OddRequests

AddStarts    == {"NewYork", "London"}
AddEnds      == {"London", "Frankfurt"}
AddDurations == {50, 90}
AddCosts     == {500}
AddLayovers  == {2}
AddAirlines  == {"Direct"}

RequiredFields == {"start", "end", "airline", "duration", "cost"}

\* fields: the keys of the JSON body; convertible: whether str(), float() and
\* int() accept the values.
UpdateRequests ==
    [start : AddStarts, end : AddEnds, airline : AddAirlines,
     duration : AddDurations, cost : AddCosts, layovers : AddLayovers,
     fields : {RequiredFields \cup {"layovers"}}, convertible : {TRUE}]
    \cup
    \* a body with a field missing, a body with a duration that is no number
    { [start |-> "Toronto", end |-> "London", airline |-> "Direct",
       duration |-> 70, cost |-> 0, layovers |-> 0,
       fields |-> RequiredFields \ {"cost"}, convertible |-> TRUE],
      [start |-> "Toronto", end |-> "London", airline |-> "Direct",
       duration |-> 0, cost |-> 500, layovers |-> 0,
       fields |-> RequiredFields, convertible |-> FALSE] }

\* -------------------------------------------------------------------------
\* GET /api/route (app.py 363-395)
\* -------------------------------------------------------------------------
NormalizeMethod(method) ==
    LET m == IF method \notin {"dijkstra", "a_star", "astar", "a*"}
             THEN "dijkstra" ELSE method
    IN  IF m \in {"a_star", "astar", "a*"} THEN "a_star" ELSE m

\* The response: status 200 with the itinerary, 404 with the no-route error,
\* 400 for a bad request, 500 when the handler raised.
api_route(G, have, space, req) ==
    LET method == NormalizeMethod(req.method)
    IN  IF req.from = "" \/ req.to = ""
        THEN [op |-> "route", req |-> req, status |-> 400,
              error |-> "Missing required params: from, to"]
        ELSE IF ~req.numeric
        THEN [op |-> "route", req |-> req, status |-> 400,
              error |-> "Weights must be numeric"]
        ELSE IF req.source = "metta" /\ ~have
        THEN [op |-> "route", req |-> req, status |-> 400,
              error |-> "MeTTa/Hyperon not available"]
        ELSE LET Gq  == IF req.source = "metta"
                        THEN graph_from_edges(edges_from_metta_now(have, space))
                        ELSE G
                 res == compute_best_route_on_graph(Gq, req.from, req.to,
                            req.w_duration, req.w_cost, req.w_layovers, method)
             IN  IF res.kind = "None"
                 THEN [op |-> "route", req |-> req, status |-> 404,
                       error |-> "No route"]
                 ELSE IF res.kind = "route"
                 THEN [op |-> "route", req |-> req, status |-> 200, res |-> res]
                 ELSE [op |-> "route", req |-> req, status |-> 500,
                       raised |-> res.kind]

ApiRoute ==
    /\ resp = Idle
    /\ \E req \in RouteRequests :
           resp' = api_route(GRAPH, HAVE_HYPERON, METTA, req)
    /\ UNCHANGED <<GRAPH, HAVE_HYPERON, METTA, nAdds, threads>>

\* -------------------------------------------------------------------------
\* POST /api/update-flight-data (app.py 397-423)
\* -------------------------------------------------------------------------
\* add_fact_to_graph_and_metta: the graph first, then the MeTTa space when
\* hyperon is available; METTA_INSTANCE.run may raise (mettaRaises), which
\* leaves the function after the graph was written.
add_fact_with_rollback(G, have, space, data, mettaRaises) ==
    [graph  |-> IF mettaRaises THEN G
                ELSE add_edge_to_graph(G, FlightEdge(data.start, data.end, data.airline,
                                                     data.duration, data.cost, data.layovers)),
     metta  |-> IF have /\ ~mettaRaises
                THEN Append(space, FlightRouteAtom(data.start, data.end, data.airline,
                                                   data.duration, data.cost, data.layovers))
                ELSE space,
     raised |-> mettaRaises]

add_fact_to_graph_and_metta(G, have, space, data, mettaRaises) ==
    [graph  |-> add_edge_to_graph(G, FlightEdge(data.start, data.end, data.airline,
                                                data.duration, data.cost, data.layovers)),
     metta  |-> IF have /\ ~mettaRaises
                THEN Append(space, FlightRouteAtom(data.start, data.end, data.airline,
                                                   data.duration, data.cost, data.layovers))
                ELSE space,
     raised |-> mettaRaises]

UpdateFlightData ==
    /\ resp = Idle
    /\ nAdds < MaxAdds
    /\ \E data \in UpdateRequests, mettaRaises \in BOOLEAN :
         /\ mettaRaises => HAVE_HYPERON
         /\ IF RequiredFields \ data.fields # {}
            THEN /\ resp' = [op |-> "update", req |-> data, status |-> 400,
                             error |-> "Missing fields"]
                 /\ UNCHANGED <<GRAPH, METTA>>
            ELSE IF ~data.convertible
            THEN /\ resp' = [op |-> "update", req |-> data, status |-> 400,
                             error |-> "Invalid field types"]
                 /\ UNCHANGED <<GRAPH, METTA>>
            ELSE LET out == add_fact_to_graph_and_metta(GRAPH, HAVE_HYPERON, METTA,
                                                         data, mettaRaises)
                 IN
                 /\ GRAPH' = out.graph
                 /\ METTA' = out.metta
                 /\ resp' = IF out.raised
                            THEN [op |-> "update", req |-> data, status |-> 500,
                                  raised |-> "MeTTa"]
                            ELSE [op |-> "update", req |-> data, status |-> 200]
    /\ nAdds' = nAdds + 1
    /\ UNCHANGED <<HAVE_HYPERON, threads>>

\* The response leaves the process: the next request can be handled.
Deliver ==
    /\ resp # Idle
    /\ resp' = Idle
    /\ UNCHANGED <<GRAPH, HAVE_HYPERON, METTA, nAdds, threads>>

\* -------------------------------------------------------------------------
\* Specification: the state after boot(), then requests one at a time.
\* -------------------------------------------------------------------------
Init ==
    /\ HAVE_HYPERON \in BOOLEAN
    /\ \E file \in MettaFiles :
         /\ ~HAVE_HYPERON => file = <<>>
         /\ METTA = (IF HAVE_HYPERON THEN file ELSE <<>>)
         /\ GRAPH = boot(HAVE_HYPERON, file)
    /\ resp = Idle
    /\ nAdds = 0
    /\ reader = ReaderIdle
    /\ writer = WriterIdle
    /\ snapshots = {}

Next == ApiRoute \/ UpdateFlightData \/ Deliver

Spec == Init /\ [][Next]_vars

\* -------------------------------------------------------------------------
\* Threads.  app.run() serves every request on a thread of its own and the
\* module holds no lock: compute_best_route_on_graph reads GRAPH statement by
\* statement while add_edge_to_graph writes it.  A step below is one
\* statement of the loop of lines 282-286 or of DiGraph.add_edge; the
\* dictionaries are shared by reference, as in the interpreter.
\* -------------------------------------------------------------------------
ThreadRoutes ==
    {RouteRequest(x[1], x[2], m, "python", DefaultWeights, <<>>, TRUE) :
        x \in {<<"Toronto", "London">>, <<"NewYork", "Frankfurt">>}, m \in Methods}

\* The well-formed bodies, and one that names a location the graph lacks.
ThreadUpdates ==
    {d \in UpdateRequests : RequiredFields \subseteq d.fields /\ d.convertible}
    \cup
    { [start |-> "London", end |-> "Tokyo", airline |-> "Direct",
       duration |-> 90, cost |-> 500, layovers |-> 2,
       fields |-> RequiredFields \cup {"layovers"}, convertible |-> TRUE] }

\* next() on the iterator of G.edges(data=True).  it.i and it.k count the
\* nodes and the successors of node it.i already taken; it.nsize and it.ksize
\* are the sizes the two dictionaries had when their iterators were made.  A
\* dictionary that changed size makes its iterator raise.
RECURSIVE edges_next(_, _)
edges_next(G, it) ==
    LET outer ==
            IF Len(G.nodes) # it.nsize THEN [kind |-> "RuntimeError"]
            ELSE IF it.i >= it.nsize THEN [kind |-> "StopIteration"]
            ELSE edges_next(G, [it EXCEPT !.i = @ + 1, !.k = 0,
                                          !.ksize = Len(G.succ[G.nodes[it.i + 1]])])
    IN  IF it.i = 0 THEN outer
        ELSE LET u == G.nodes[it.i]
             IN  IF Len(G.succ[u]) # it.ksize THEN [kind |-> "RuntimeError"]
                 ELSE IF it.k < it.ksize
                 THEN [kind |-> "edge", u |-> u, v |-> G.succ[u][it.k + 1],
                       it |-> [it EXCEPT !.k = @ + 1]]
                 ELSE outer

Mutating == writer.pc \in {"node_u", "node_v", "attrs", "succ", "pred"}

\* Lines 278-282: the check of the two locations, H = nx.DiGraph() and the
\* iterator of the for loop.
RdStart ==
    /\ reader.pc = "idle"
    /\ \E req \in ThreadRoutes :
         reader' = IF ~HasNode(GRAPH, req.from) \/ ~HasNode(GRAPH, req.to)
                   THEN [pc |-> "return", req |-> req, res |-> [kind |-> "None"]]
                   ELSE [pc |-> "next", req |-> req, H |-> EmptyGraph,
                         it |-> [i |-> 0, k |-> 0, nsize |-> Len(GRAPH.nodes),
                                 ksize |-> 0]]
    /\ snapshots' = {IF Mutating THEN writer.before ELSE GRAPH.attr}
    /\ UNCHANGED <<GRAPH, HAVE_HYPERON, METTA, resp, nAdds, writer>>

\* Line 282: the for loop takes the next edge, ends, or the iterator raises.
RdNext ==
    /\ reader.pc = "next"
    /\ LET r == edges_next(GRAPH, reader.it)
       IN  reader' =
             IF r.kind = "edge"
             THEN [reader EXCEPT !.pc = "weigh", !.it = r.it] @@ [cur |-> <<r.u, r.v>>]
             ELSE IF r.kind = "StopIteration"
             THEN [pc |-> "search", req |-> reader.req, H |-> reader.H]
             ELSE [pc |-> "return", req |-> reader.req, res |-> r]
    /\ UNCHANGED <<GRAPH, HAVE_HYPERON, METTA, resp, nAdds, writer, snapshots>>

\* Line 283: w = edge_weight(attrs, ...), attrs being the edge's dictionary.
RdWeigh ==
    /\ reader.pc = "weigh"
    /\ reader' = [reader EXCEPT !.pc = "copy"] @@
                 [w |-> edge_weight(GRAPH.attr[reader.cur], reader.req.w_duration,
                                    reader.req.w_cost, reader.req.w_layovers)]
    /\ UNCHANGED <<GRAPH, HAVE_HYPERON, METTA, resp, nAdds, writer, snapshots>>

\* Lines 284-286: new_attrs = dict(attrs) with the weight, H.add_edge.
RdCopy ==
    /\ reader.pc = "copy"
    /\ LET attrs == GRAPH.attr[reader.cur]
       IN  reader' = [pc |-> "next", req |-> reader.req, it |-> reader.it,
                      H |-> nx_add_edge(reader.H, reader.cur[1], reader.cur[2],
                                [airline |-> attrs.airline, duration |-> attrs.duration,
                                 cost |-> attrs.cost, layovers |-> attrs.layovers,
                                 weight |-> reader.w])]
    /\ UNCHANGED <<GRAPH, HAVE_HYPERON, METTA, resp, nAdds, writer, snapshots>>

\* Lines 289-328: the search over H and the result.
RdSearch ==
    /\ reader.pc = "search"
    /\ reader' = [pc |-> "return", req |-> reader.req,
                  res |-> SearchProjection(reader.H, reader.req.from, reader.req.to,
                                           reader.req.w_duration, reader.req.method)]
    /\ UNCHANGED <<GRAPH, HAVE_HYPERON, METTA, resp, nAdds, writer, snapshots>>

RdReturn ==
    /\ reader.pc = "return"
    /\ reader' = ReaderIdle
    /\ snapshots' = {}
    /\ UNCHANGED <<GRAPH, HAVE_HYPERON, METTA, resp, nAdds, writer>>

\* update_flight_data up to the call of add_edge_to_graph (lines 408-421, 400).
WrStart ==
    /\ writer.pc = "idle"
    /\ nAdds < MaxAdds
    /\ \E data \in ThreadUpdates :
         writer' = [pc |-> "node_u", data |-> data, before |-> GRAPH.attr]
    /\ nAdds' = nAdds + 1
    /\ UNCHANGED <<GRAPH, HAVE_HYPERON, METTA, resp, reader, snapshots>>

\* DiGraph.add_edge: if u not in self._succ: the node's dictionaries.
WrNodeU ==
    /\ writer.pc = "node_u"
    /\ GRAPH' = AddNode(GRAPH, writer.data.start)
    /\ writer' = [writer EXCEPT !.pc = "node_v"]
    /\ UNCHANGED <<HAVE_HYPERON, METTA, resp, nAdds, reader, snapshots>>

\* DiGraph.add_edge: if v not in self._succ: the node's dictionaries.
WrNodeV ==
    /\ writer.pc = "node_v"
    /\ GRAPH' = AddNode(GRAPH, writer.data.end)
    /\ writer' = [writer EXCEPT !.pc = "attrs"]
    /\ UNCHANGED <<HAVE_HYPERON, METTA, resp, nAdds, reader, snapshots>>

\* DiGraph.add_edge: datadict = self._adj[u].get(v, {}); datadict.update(attr).
\* The dictionary of an existing edge is the one the graph holds.
WrAttrs ==
    /\ writer.pc = "attrs"
    /\ GRAPH' = IF HasEdge(GRAPH, writer.data.start, writer.data.end)
                THEN [GRAPH EXCEPT !.attr[<<writer.data.start, writer.data.end>>] =
                                       EdgeAttrs(writer.data)]
                ELSE GRAPH
    /\ writer' = [writer EXCEPT !.pc = "succ"]
    /\ UNCHANGED <<HAVE_HYPERON, METTA, resp, nAdds, reader, snapshots>>

\* DiGraph.add_edge: self._succ[u][v] = datadict.
WrSucc ==
    /\ writer.pc = "succ"
    /\ LET u == writer.data.start
           v == writer.data.end
       IN  GRAPH' = [GRAPH EXCEPT
                        !.succ[u] = IF v \in SeqToSet(@) THEN @ ELSE Append(@, v),
                        !.attr    = (<<u, v>> :> EdgeAttrs(writer.data)) @@ @]
    /\ writer' = [writer EXCEPT !.pc = "pred"]
    /\ UNCHANGED <<HAVE_HYPERON, METTA, resp, nAdds, reader, snapshots>>

\* DiGraph.add_edge: self._pred[v][u] = datadict.  The mutation is whole.
WrPred ==
    /\ writer.pc = "pred"
    /\ LET u == writer.data.start
           v == writer.data.end
       IN  GRAPH' = [GRAPH EXCEPT
                        !.pred[v] = IF u \in SeqToSet(@) THEN @ ELSE Append(@, u)]
    /\ writer' = [writer EXCEPT !.pc = "metta"]
    /\ snapshots' = IF reader.pc = "idle" THEN snapshots
                    ELSE snapshots \cup {GRAPH'.attr}
    /\ UNCHANGED <<HAVE_HYPERON, METTA, resp, nAdds, reader>>

\* Lines 402-404 and 422: METTA_INSTANCE.run(atom), which may raise, and the
\* response.
WrMetta ==
    /\ writer.pc = "metta"
    /\ \E mettaRaises \in BOOLEAN :
         /\ mettaRaises => HAVE_HYPERON
         /\ METTA' = add_fact_to_graph_and_metta(GRAPH, HAVE_HYPERON, METTA,
                                                 writer.data, mettaRaises).metta
    /\ writer' = WriterIdle
    /\ UNCHANGED <<GRAPH, HAVE_HYPERON, resp, nAdds, reader, snapshots>>

NextThreads ==
    \/ RdStart \/ RdNext \/ RdWeigh \/ RdCopy \/ RdSearch \/ RdReturn
    \/ WrStart \/ WrNodeU \/ WrNodeV \/ WrAttrs \/ WrSucc \/ WrPred \/ WrMetta

SpecThreads == Init /\ [][NextThreads]_vars

\* =========================================================================
\* Properties
\* =========================================================================
\* The route request just answered with an itinerary.
Answered == resp.op = "route" /\ resp.status = 200

\* The route request just handled reached the search (it was well formed).
Searched == resp.op = "route" /\ resp.status \in {200, 404, 500}

NonNegative(req) == req.w_duration >= 0 /\ req.w_cost >= 0 /\ req.w_layovers >= 0

\* The graph a request is answered from.
QueryGraph(req) ==
    IF req.source = "metta"
    THEN graph_from_edges(edges_from_metta_now(HAVE_HYPERON, METTA))
    ELSE GRAPH

Last(p) == p[Len(p)]

\* The paths of G from src that repeat no location, of up to k more hops.
RECURSIVE SimplePathsFrom(_, _, _, _)
SimplePathsFrom(G, layer, dst, k) ==
    IF k = 0 \/ layer = {} THEN layer
    ELSE LET open == {p \in layer : Last(p) # dst}
             next == UNION {{Append(p, v) : v \in SeqToSet(G.succ[Last(p)]) \ SeqToSet(p)}
                            : p \in open}
         IN  layer \cup SimplePathsFrom(G, next, dst, k - 1)

\* Every path from src to dst in G that repeats no location.
SimplePaths(G, src, dst) ==
    IF ~HasNode(G, src) THEN {}
    ELSE {p \in SimplePathsFrom(G, {<<src>>}, dst, Len(G.nodes)) : Last(p) = dst}

\* The summed edge weight of a path, from the stored attributes.
RECURSIVE PathWeight(_, _, _)
PathWeight(G, p, req) ==
    IF Len(p) < 2 THEN 0
    ELSE edge_weight(G.attr[<<p[1], p[2]>>], req.w_duration, req.w_cost, req.w_layovers)
         + PathWeight(G, Tail(p), req)

FollowsConnections(G, p) ==
    \A i \in 1..(Len(p) - 1) : HasEdge(G, p[i], p[i + 1])

EdgeEntry(G, u, v) ==
    [from |-> u, to |-> v, airline |-> G.attr[<<u, v>>].airline,
     duration |-> G.attr[<<u, v>>].duration, cost |-> G.attr[<<u, v>>].cost]

DirectWeight(G, req) ==
    edge_weight(G.attr[<<req.from, req.to>>], req.w_duration, req.w_cost, req.w_layovers)

Connections(G) == G.attr

\* Every ordered pair is held once: the successor lists repeat no location
\* and list exactly the pairs that carry attributes.
OneConnectionPerPair(G) ==
    /\ \A u \in SeqToSet(G.nodes) :
           \A i, j \in 1..Len(G.succ[u]) : G.succ[u][i] = G.succ[u][j] => i = j
    /\ DOMAIN G.attr = SeqToSet(nx_edges(G))

UpdateAttrs(data) ==
    [airline |-> data.airline, duration |-> data.duration,
     cost |-> data.cost, layovers |-> data.layovers]

\* The update request just handled got as far as add_fact_to_graph_and_metta.
Added == resp.op = "update" /\ resp.status \in {200, 500}

\* C4, in every state: one connection per ordered pair; the pair of the add
\* just handled carries that add's attributes; an answer from the process-wide
\* graph lists the connections as the graph holds them now.
C4_State ==
    /\ OneConnectionPerPair(GRAPH)
    /\ Added => /\ HasEdge(GRAPH, resp.req.start, resp.req.end)
                /\ GRAPH.attr[<<resp.req.start, resp.req.end>>] = UpdateAttrs(resp.req)
    /\ (Answered /\ resp.req.source = "python") =>
           /\ FollowsConnections(GRAPH, resp.res.path)
           /\ resp.res.edges =
                  [i \in 1..(Len(resp.res.path) - 1) |->
                      EdgeEntry(GRAPH, resp.res.path[i], resp.res.path[i + 1])]
           /\ resp.res.totals.score - PathWeight(GRAPH, resp.res.path, resp.req)
                  \in -500..500

\* C4, in every step: no connection is dropped, and a connection's attributes
\* change only in an add for its pair.
C4_Step ==
    \A pair \in DOMAIN GRAPH.attr :
        /\ pair \in DOMAIN GRAPH'.attr
        /\ GRAPH'.attr[pair] # GRAPH.attr[pair] =>
               /\ resp'.op = "update"
               /\ pair = <<resp'.req.start, resp'.req.end>>

\* C4: the graph holds one connection per ordered pair, with the attributes
\* of the latest add for the pair, and the queries after an add use it.
C4_LastWriteWins == [](C4_State) /\ [][C4_Step]_vars

\* C4 witness: the add replaced NewYork -> London (6.8 h by Delta) with a
\* 5.0 h connection, and the next query from Toronto goes over it.
C4_Witness ==
    /\ Answered
    /\ resp.req.source = "python"
    /\ resp.res.path = <<"Toronto", "NewYork", "London">>
    /\ resp.res.edges[2].airline = "Direct"
    /\ resp.res.edges[2].duration = 50
    /\ resp.res.totals.score = 6500000

\* C5: a route request that reaches the search ends with an itinerary or the
\* no-route answer, never with an exception.
C5_RouteNeverRaises == Searched => resp.status \in {200, 404}

\* C6: an answer to a request with max_layovers has no more layovers than
\* the bound.
C6_MaxLayoversEnforced ==
    (Answered /\ resp.req.max_layovers # <<>>) =>
        resp.res.totals.layovers <= resp.req.max_layovers[1]

\* C7: the layovers of an answer are max(0, |path| - 2): none for the path of
\* one location that answers from = to and for a one-hop path, one less than
\* the connections traversed otherwise, whatever their layovers attribute.
C7_LayoversFromPathLength ==
    Answered =>
        LET path == resp.res.path
            n    == resp.res.totals.layovers
        IN  /\ Len(path) >= 1
            /\ Len(resp.res.edges) = Len(path) - 1
            /\ (resp.req.from = resp.req.to => path = <<resp.req.from>>)
            /\ (Len(path) <= 2 => n = 0)
            /\ (Len(path) > 2 => n = Len(path) - 2)

\* C7 witness: an answer over a connection stored with layovers 2 that
\* reports none.
C7_Witness ==
    /\ Answered
    /\ resp.res.totals.layovers = 0
    /\ Len(resp.res.path) = 2
    /\ QueryGraph(resp.req).attr[<<resp.res.path[1], resp.res.path[2]>>].layovers = 2

\* C8: the connections read back from the MeTTa space are those of the
\* process-wide graph (stated for the state boot() leaves).
C8_StoresInSync ==
    (HAVE_HYPERON /\ nAdds = 0) =>
        Connections(graph_from_edges(edges_from_metta_now(HAVE_HYPERON, METTA)))
            = Connections(GRAPH)

\* C9, in every step: an add whose MeTTa notification raised leaves the
\* connection in the graph and the MeTTa space as it was; delivering the
\* response leaves the graph alone.
C9_Step ==
    /\ (resp'.op = "update" /\ resp'.status = 500) =>
           /\ HasEdge(GRAPH', resp'.req.start, resp'.req.end)
           /\ GRAPH'.attr[<<resp'.req.start, resp'.req.end>>] = UpdateAttrs(resp'.req)
           /\ METTA' = METTA
    /\ (resp.op = "update" /\ resp' = Idle) => GRAPH' = GRAPH

\* C9: a failed notification does not roll back the local write.
C9_NoRollback == [][C9_Step]_vars

\* C9 witness: the graph holds NewYork -> Frankfurt, the MeTTa space does
\* not, and the add was answered with an error.
C9_Witness ==
    /\ resp.op = "update"
    /\ resp.status = 500
    /\ resp.req.start = "NewYork" /\ resp.req.end = "Frankfurt"
    /\ HasEdge(GRAPH, "NewYork", "Frankfurt")
    /\ \A e \in SeqToSet(edges_from_metta_now(HAVE_HYPERON, METTA)) :
           <<e.src, e.dst>> # <<"NewYork", "Frankfurt">>


\* The weighted projection of the connections S under a request's weights.
ProjectionOf(S, req) ==
    [pair \in DOMAIN S |->
        [airline |-> S[pair].airline, duration |-> S[pair].duration,
         cost |-> S[pair].cost, layovers |-> S[pair].layovers,
         weight |-> edge_weight(S[pair], req.w_duration, req.w_cost, req.w_layovers)]]

\* C10: the projection a query has built is the projection of one whole
\* state of the graph: the state when the query started or one left by an
\* add that completed since.
C10_ConsistentSnapshot ==
    reader.pc = "search" =>
        \E S \in snapshots : reader.H.attr = ProjectionOf(S, reader.req)

====
